---- MODULE Spec2Model ----
(***************************************************************************)
(* geyserbench: N provider workers (yellowstone, arpc, jetstream) read     *)
(* their streams, record first sightings of signatures, count them in a    *)
(* shared quota counter and broadcast shutdown when the quota is reached.  *)
(* One step of the model is one atomic operation of a worker: the initial  *)
(* connect, a poll of the biased select, the body of the stream branch up  *)
(* to the comparator registration, the fetch_add, the swap, the broadcast  *)
(* send, the enqueue, the final add_batch.                                 *)
(***************************************************************************)
EXTENDS Integers, Sequences, FiniteSets, TLC

\* ---------------------------------------------------------------- bounds
NumProducers == 2
NumSigs == 2
MaxTarget == 2
MaxTime == 1
MaxFrames == 2
QueueCap == 1

Producers == 1..NumProducers
Sigs == 1..NumSigs
Kinds == {"yellowstone", "arpc", "jetstream"}

VARIABLES
    kind,                \* producer -> EndpointKind of its endpoint
    target_transactions, \* ProviderContext.target_transactions : Option<usize>
    shared_counter,      \* ProviderContext.shared_counter
    shared_shutdown,     \* ProviderContext.shared_shutdown
    shutdown_rx,         \* producer -> a broadcast value is pending in its receiver
    comparator,          \* the shared Comparator
    signature_tx,        \* the envelope queue
    pc,                  \* producer -> position in process_*_endpoint
    stream,              \* producer -> "open" | "closed"
    message,             \* producer -> the frame being handled (local `message`)
    accumulator,         \* producer -> its TransactionAccumulator
    result,              \* producer -> what the worker returned
    now,                 \* start_instant.elapsed()
    frames,              \* number of stream.next() results so far (bounds the run)
    script,              \* producer -> frames still to come (scripted scenarios)
    external,            \* the supervisor has broadcast an external shutdown
    reported,            \* the supervisor has produced the report
    sends,               \* producer -> number of shutdown_tx.send(()) calls it made
    swapped_false,       \* producers whose shared_shutdown.swap returned false
    counted,             \* (producer, signature) pairs whose recording did fetch_add
    transaction_count,   \* producer -> its local transaction_count
    pushes,              \* (producer, signature) -> number of envelopes handed to the queue
    passed,              \* (signature, source) -> elapsed values handed to the comparator
    sent_at              \* shared_counter when the shutdown broadcast was sent

vars == <<kind, target_transactions, shared_counter, shared_shutdown, shutdown_rx,
          comparator, signature_tx, pc, stream, message, accumulator, result, now,
          frames, script, external, reported, sends, swapped_false, counted,
          transaction_count, pushes, passed,
          sent_at>>

\* ------------------------------------------------------- option of usize
None == [some |-> FALSE, val |-> 0]
Some(n) == [some |-> TRUE, val |-> n]

\* The supervisor turns config.transactions (i32) into target_transactions:
\* a value <= 0 means no quota.
TargetOf(transactions) == IF transactions > 0 THEN Some(transactions) ELSE None

\* ------------------------------------------------------------ accumulator
\* TransactionAccumulator: signature -> TransactionData (elapsed_since_start).
EmptyMap == [s \in {} |-> 0]

\* record returns true iff the signature is new to this producer
RecordIsNew(acc, signature) == signature \notin DOMAIN acc

\* record keeps the stored TransactionData of a signature already present
AccRecordOverwrite(acc, signature, tx_data) ==
    [s \in DOMAIN acc \cup {signature} |->
        IF s = signature THEN tx_data ELSE acc[s]]
AccRecord(acc, signature, tx_data) ==
    IF signature \in DOMAIN acc THEN acc
    ELSE [s \in DOMAIN acc \cup {signature} |->
             IF s = signature THEN tx_data ELSE acc[s]]

\* ------------------------------------------------------------- comparator
\* by_signature is kept as a map from (signature, source) to elapsed: the
\* outer key exists iff some inner entry exists.
EmptyComparator == [by_signature |-> [k \in {} |-> 0], sources_seen |-> {}]

\* insert, or replace only by a smaller elapsed_since_start
UpsertLatest(by, signature, source, tx_data) ==
    LET k == <<signature, source>> IN
    [x \in DOMAIN by \cup {k} |-> IF x = k THEN tx_data ELSE by[x]]
UpsertSum(by, signature, source, tx_data) ==
    LET k == <<signature, source>> IN
    [x \in DOMAIN by \cup {k} |->
        IF x = k THEN (IF k \in DOMAIN by THEN by[k] + tx_data ELSE tx_data)
        ELSE by[x]]
Upsert(by, signature, source, tx_data) ==
    LET k == <<signature, source>> IN
    IF k \in DOMAIN by
    THEN [by EXCEPT ![k] = IF tx_data < by[k] THEN tx_data ELSE by[k]]
    ELSE [x \in DOMAIN by \cup {k} |-> IF x = k THEN tx_data ELSE by[x]]

\* note_first_seen: the comparator after the call
NoteFirstSeen(cmp, source, signature, tx_data) ==
    [by_signature |-> Upsert(cmp.by_signature, signature, source, tx_data),
     sources_seen |-> cmp.sources_seen \cup {source}]

\* note_first_seen returns an envelope exactly when the call produced a new
\* (signature, source) entry
NoteReturnsEnvelope(cmp, source, signature) ==
    <<signature, source>> \notin DOMAIN cmp.by_signature

RECURSIVE MergeAll(_, _, _, _)
MergeAll(by, source, batch, todo) ==
    IF todo = {} THEN by
    ELSE LET s == CHOOSE x \in todo : TRUE IN
         MergeAll(Upsert(by, s, source, batch[s]), source, batch, todo \ {s})

\* add_batch: merge a producer's whole local map
AddBatch(cmp, source, batch) ==
    [by_signature |-> MergeAll(cmp.by_signature, source, batch, DOMAIN batch),
     sources_seen |-> IF DOMAIN batch = {} THEN cmp.sources_seen
                      ELSE cmp.sources_seen \cup {source}]

\* ----------------------------------------------------------------- report
SigsOf(cmp) == {k[1] : k \in DOMAIN cmp.by_signature}
Observers(cmp, s) == {src \in Producers : <<s, src>> \in DOMAIN cmp.by_signature}
Elapsed(cmp, s, src) == cmp.by_signature[<<s, src>>]
Winners(cmp, s) ==
    {w \in Observers(cmp, s) :
        \A o \in Observers(cmp, s) : Elapsed(cmp, s, w) <= Elapsed(cmp, s, o)}
Wins(cmp, src) == Cardinality({s \in SigsOf(cmp) : src \in Winners(cmp, s)})
Gap(cmp, s, src) ==
    Elapsed(cmp, s, src) - Elapsed(cmp, s, CHOOSE w \in Winners(cmp, s) : TRUE)

\* The report of one signature, computed by one pass over its observers in
\* the order of the sources: the winner so far is replaced by a source that
\* was sooner.
Later(elapsed, best) == elapsed > best
Sooner(elapsed, best) == elapsed < best

RECURSIVE PickWinner(_, _, _, _)
PickWinner(cmp, s, todo, best) ==
    IF todo = {} THEN best
    ELSE LET src == CHOOSE x \in todo : \A y \in todo : x <= y
         IN PickWinner(cmp, s, todo \ {src},
                       IF Sooner(Elapsed(cmp, s, src), Elapsed(cmp, s, best))
                       THEN src ELSE best)

ReportWinner(cmp, s) ==
    LET first == CHOOSE x \in Observers(cmp, s) : \A y \in Observers(cmp, s) : x <= y
    IN PickWinner(cmp, s, Observers(cmp, s) \ {first}, first)

ReportGaps(cmp, s) ==
    LET winner == ReportWinner(cmp, s)
    IN [src \in Observers(cmp, s) \ {winner} |->
           Elapsed(cmp, s, src) - Elapsed(cmp, s, winner)]

ReportMissing(cmp, s) == cmp.sources_seen \ Observers(cmp, s)

\* ------------------------------------------------------------ hot path
Idle == [type |-> "Idle"]

\* `if updated && let Some(envelope) = build_signature_envelope(..)`
HotPathUnguarded(updated, has_envelope) == TRUE
HotPathGuard(updated, has_envelope) == updated /\ has_envelope

\* the call `build_signature_envelope(&comparator, &endpoint_name, &signature,
\* tx_data, total_producers)`, made only when `updated` holds
RegisteredLate(cmp, updated, source, m) == cmp
Registered(cmp, updated, source, m) ==
    IF updated THEN NoteFirstSeen(cmp, source, m.signature, m.elapsed) ELSE cmp

\* `if let Some(target) = target_transactions`
QuotaAlways(target) == TRUE
QuotaConfigured(target) == target.some

\* `shared_counter.fetch_add(1, AcqRel) + 1`
FetchAddResult(counter) == counter + 1

\* `shared >= target`
ReachedTargetEarly(shared, target) == shared + 1 >= target
ReachedTargetLate(shared, target) == shared > target
ReachedTarget(shared, target) == shared >= target

\* `!shared_shutdown.swap(true, AcqRel)`
SwapAlwaysWins(old) == TRUE
SwapWins(old) == ~old

\* a stream that ended or failed: yellowstone breaks, arpc and jetstream
\* fall through to the next iteration
BreaksOnStreamEnd(k) == k = "yellowstone"

\* jetstream awaits sender.send(envelope); the others call enqueue_signature,
\* which pushes without blocking
EnqueueBlocks(k) == k = "jetstream"

\* enqueue_signature: push, or drop the envelope when the queue is full
Push(queue, envelope) ==
    IF Len(queue) < QueueCap THEN Append(queue, envelope) ELSE queue

Envelope(p) == [source |-> p, signature |-> message[p].signature]

\* one more envelope of this (producer, signature) was handed to the queue
Pushed(bag, pair) ==
    [k \in DOMAIN bag \cup {pair} |->
        IF k = pair THEN (IF k \in DOMAIN bag THEN bag[k] + 1 ELSE 1) ELSE bag[k]]

\* one more elapsed value of (signature, source) was handed to the comparator
Pass(seen, source, signature, tx_data) ==
    LET key == <<signature, source>>
    IN [k \in DOMAIN seen \cup {key} |->
           IF k = key THEN (IF k \in DOMAIN seen THEN seen[k] ELSE {}) \cup {tx_data}
           ELSE seen[k]]

\* the signature of a message that carries none: arpc's
\* `signatures.first().map(..).unwrap_or_default()` and jetstream's
\* `bs58::encode(&tx_info.signature)` turn it into the empty string
EmptySig == 0

\* `let has_account = tx.account_keys.iter().any(..); if !has_account { continue }`
\* in arpc and jetstream; yellowstone has no such test
ChecksAccount(k) == k \in {"arpc", "jetstream"}

\* `let Some(signature_bytes) = .. else { warn!(..); continue }` in yellowstone
SkipsMissingSignature(k) == k = "yellowstone"

\* the message gets past the filters of the stream branch
Accepts(k, m) ==
    /\ ChecksAccount(k) => m.has_account
    /\ SkipsMissingSignature(k) => m.signature # EmptySig

\* what the rest of the iteration keeps of the message: `signature`, `tx_data`
Kept(m) == [type |-> "Tx", signature |-> m.signature, elapsed |-> m.elapsed]

\* every entry of a batch was handed to the comparator
RECURSIVE PassBatch(_, _, _, _)
PassBatch(seen, source, batch, todo) ==
    IF todo = {} THEN seen
    ELSE LET signature == CHOOSE x \in todo : TRUE
         IN PassBatch(Pass(seen, source, signature, batch[signature]), source,
                      batch, todo \ {signature})

\* ------------------------------------------------------------------ Init
\* Producers are interchangeable, so the endpoints are listed in the order
\* of the EndpointKind enum.
KindRank(k) == CASE k = "yellowstone" -> 0 [] k = "arpc" -> 1 [] OTHER -> 2

InitCommon ==
    /\ kind \in {k \in [Producers -> Kinds] :
                   \A p, q \in Producers : p <= q => KindRank(k[p]) <= KindRank(k[q])}
    /\ shared_counter = 0
    /\ shared_shutdown = FALSE
    /\ shutdown_rx = [p \in Producers |-> FALSE]
    /\ comparator = EmptyComparator
    /\ signature_tx = <<>>
    /\ pc = [p \in Producers |-> "connect"]
    /\ stream = [p \in Producers |-> "open"]
    /\ message = [p \in Producers |-> Idle]
    /\ accumulator = [p \in Producers |-> EmptyMap]
    /\ result = [p \in Producers |-> "running"]
    /\ now = 0
    /\ frames = 0
    /\ external = FALSE
    /\ reported = FALSE
    /\ sends = [p \in Producers |-> 0]
    /\ swapped_false = {}
    /\ counted = {}
    /\ transaction_count = [p \in Producers |-> 0]
    /\ pushes = EmptyMap
    /\ passed = EmptyMap
    /\ sent_at = 0

Init ==
    /\ InitCommon
    /\ target_transactions \in {TargetOf(t) : t \in 0..MaxTarget}
    /\ script = [p \in Producers |-> <<>>]

\* ------------------------------------------------------- the select loop
InLoop(p) == pc[p] \notin {"flush", "done", "killed"}

\* `.connect().await.unwrap_or_else(|err| fatal_connection_error(..))`
ConnectErrorReturnsErr(k) == FALSE
ConnectErrorIsFatal(k) == k \in Kinds

\* fatal_connection_error has ended the process: no task takes another step
ProcessFailed == \E p \in Producers : pc[p] = "killed"

\* the connection and the subscription succeed: the worker enters its loop
ConnectOk(p) ==
    /\ ~ProcessFailed
    /\ pc[p] = "connect"
    /\ pc' = [pc EXCEPT ![p] = "select"]
    /\ UNCHANGED <<kind, target_transactions, shared_counter, shared_shutdown,
                   shutdown_rx, comparator, signature_tx, stream, message,
                   accumulator, result, now, frames, script, external, reported,
                   sends, swapped_false, counted, transaction_count, pushes,
                   passed, sent_at>>

\* the initial connection fails
ConnectFail(p) ==
    /\ ~ProcessFailed
    /\ pc[p] = "connect"
    /\ result' = [result EXCEPT ![p] = "connect_failed"]
    /\ pc' = [pc EXCEPT ![p] =
                 IF ConnectErrorIsFatal(kind[p]) THEN "killed" ELSE "done"]
    /\ UNCHANGED <<kind, target_transactions, shared_counter, shared_shutdown,
                   shutdown_rx, comparator, signature_tx, stream, message,
                   accumulator, now, frames, script, external, reported,
                   sends, swapped_false, counted, transaction_count, pushes,
                   passed, sent_at>>

\* `tokio::select! { biased; _ = shutdown_rx.recv() => .., message = stream.next() => .. }`:
\* the stream branch is polled only when the shutdown branch is not ready
StreamBranchAlways(pending) == TRUE
StreamBranchPolled(pending) == ~pending

\* `_ = shutdown_rx.recv() => break` : polled first (biased)
SelectShutdown(p) ==
    /\ ~ProcessFailed
    /\ pc[p] = "select"
    /\ shutdown_rx[p]
    /\ pc' = [pc EXCEPT ![p] = "flush"]
    /\ shutdown_rx' = [shutdown_rx EXCEPT ![p] = FALSE]
    /\ UNCHANGED <<kind, target_transactions, shared_counter, shared_shutdown,
                   comparator, signature_tx, stream, message, accumulator, result,
                   now, frames, script, external, reported, sends, swapped_false,
                   counted,
                   transaction_count, pushes, passed, sent_at>>

\* Signatures are opaque to the program: the signatures the workers hold are
\* numbered in the order of their first appearance, so a stream delivers a
\* signature some worker holds or the next unused number.
HeldSigs ==
    UNION {DOMAIN accumulator[q] : q \in Producers}
    \cup {message[q].signature : q \in {r \in Producers : message[r].type = "Tx"}}

NextSigs == {s \in Sigs : \A t \in Sigs : t < s => t \in HeldSigs}

\* what stream.next() may yield to producer p now: the end of the stream, a
\* receive error, an update that is no transaction, a transaction that does
\* or does not reference the configured account, a transaction that carries
\* no signature
NextFrames(p) ==
    (IF frames < MaxFrames THEN {[type |-> "None"]} ELSE {})
    \cup (IF stream[p] = "open" /\ frames < MaxFrames
          THEN {[type |-> "Err"], [type |-> "Other"]}
               \cup {[type |-> "Tx", signature |-> s, elapsed |-> now,
                      has_account |-> a] : s \in NextSigs, a \in BOOLEAN}
               \cup {[type |-> "Tx", signature |-> EmptySig, elapsed |-> now,
                      has_account |-> TRUE]}
          ELSE {})

\* `message = stream.next() =>` : taken only when no shutdown value is pending
StreamNext(p) ==
    /\ ~ProcessFailed
    /\ pc[p] = "select"
    /\ StreamBranchPolled(shutdown_rx[p])
    /\ script[p] = <<>>
    /\ \E f \in NextFrames(p) :
          /\ message' = [message EXCEPT ![p] = f]
          /\ stream' = [stream EXCEPT ![p] =
                            IF f.type \in {"None", "Err"} THEN "closed" ELSE @]
          /\ frames' = frames + 1
    /\ pc' = [pc EXCEPT ![p] = "match"]
    /\ UNCHANGED <<kind, target_transactions, shared_counter, shared_shutdown,
                   shutdown_rx, comparator, signature_tx, accumulator, result, now,
                   script, external, reported, sends, swapped_false, counted,
                   transaction_count, pushes, passed, sent_at>>

\* the body of the stream branch, down to the comparator registration; a
\* worker that breaks out of the loop never polls its receiver again
Match(p) ==
    /\ ~ProcessFailed
    /\ pc[p] = "match"
    /\ LET m == message[p]
           isTx == m.type = "Tx" /\ Accepts(kind[p], m)
           updated == isTx /\ RecordIsNew(accumulator[p], m.signature)
           has_envelope == updated /\ NoteReturnsEnvelope(comparator, p, m.signature)
           hot == isTx /\ HotPathGuard(updated, has_envelope)
       IN /\ accumulator' = [accumulator EXCEPT ![p] =
                 IF isTx THEN AccRecord(@, m.signature, m.elapsed) ELSE @]
          /\ comparator' = IF isTx THEN Registered(comparator, updated, p, m)
                           ELSE comparator
          /\ pc' = [pc EXCEPT ![p] =
                 IF m.type \in {"None", "Err"}
                 THEN (IF BreaksOnStreamEnd(kind[p]) THEN "flush" ELSE "select")
                 ELSE IF hot
                      THEN (IF QuotaConfigured(target_transactions)
                            THEN "fetch_add" ELSE "enqueue")
                      ELSE "select"]
          /\ message' = [message EXCEPT ![p] = IF hot THEN Kept(m) ELSE Idle]
          /\ transaction_count' = [transaction_count EXCEPT ![p] =
                 IF isTx THEN @ + 1 ELSE @]
          /\ passed' = IF updated THEN Pass(passed, p, m.signature, m.elapsed)
                       ELSE passed
    /\ shutdown_rx' = [shutdown_rx EXCEPT ![p] = IF pc'[p] = "flush" THEN FALSE ELSE @]
    /\ UNCHANGED <<kind, target_transactions, shared_counter, shared_shutdown,
                   signature_tx, stream, result, now, frames, script,
                   external, reported, sends, swapped_false, counted, pushes, sent_at>>

\* `write_log_entry(file, wallclock, &endpoint_name, &signature)?` fails on a
\* message that got past the filters, before it is recorded: the `?` returns
\* the error from the worker function, past the add_batch after the loop
LogWriteFails(p) ==
    /\ ~ProcessFailed
    /\ pc[p] = "match"
    /\ message[p].type = "Tx"
    /\ Accepts(kind[p], message[p])
    /\ pc' = [pc EXCEPT ![p] = "done"]
    /\ result' = [result EXCEPT ![p] = "Err"]
    /\ message' = [message EXCEPT ![p] = Idle]
    /\ shutdown_rx' = [shutdown_rx EXCEPT ![p] = FALSE]
    /\ UNCHANGED <<kind, target_transactions, shared_counter, shared_shutdown,
                   comparator, signature_tx, stream, accumulator, now, frames,
                   script, external, reported, sends, swapped_false, counted,
                   transaction_count, pushes, passed, sent_at>>

\* yellowstone answers a Ping with `subscribe_tx.send(..).await?`: a failed
\* send returns the error from the worker function in the same way
RepliesToPing(k) == k = "yellowstone"

PingReplyFails(p) ==
    /\ ~ProcessFailed
    /\ pc[p] = "match"
    /\ message[p].type = "Other"
    /\ RepliesToPing(kind[p])
    /\ pc' = [pc EXCEPT ![p] = "done"]
    /\ result' = [result EXCEPT ![p] = "Err"]
    /\ message' = [message EXCEPT ![p] = Idle]
    /\ shutdown_rx' = [shutdown_rx EXCEPT ![p] = FALSE]
    /\ UNCHANGED <<kind, target_transactions, shared_counter, shared_shutdown,
                   comparator, signature_tx, stream, accumulator, now, frames,
                   script, external, reported, sends, swapped_false, counted,
                   transaction_count, pushes, passed, sent_at>>

\* `let shared = shared_counter.fetch_add(1) + 1; if shared >= target && ..`
FetchAdd(p) ==
    /\ ~ProcessFailed
    /\ pc[p] = "fetch_add"
    /\ shared_counter' = FetchAddResult(shared_counter)
    /\ counted' = counted \cup {<<p, message[p].signature>>}
    /\ pc' = [pc EXCEPT ![p] =
                 IF ReachedTarget(shared_counter', target_transactions.val)
                 THEN "swap" ELSE "enqueue"]
    /\ UNCHANGED <<kind, target_transactions, shared_shutdown, shutdown_rx,
                   comparator, signature_tx, stream, message, accumulator, result,
                   now, frames, script, external, reported, sends, swapped_false,
                   transaction_count, pushes, passed, sent_at>>

\* `!shared_shutdown.swap(true, AcqRel)`
Swap(p) ==
    /\ ~ProcessFailed
    /\ pc[p] = "swap"
    /\ shared_shutdown' = TRUE
    /\ swapped_false' = IF shared_shutdown THEN swapped_false
                        ELSE swapped_false \cup {p}
    /\ pc' = [pc EXCEPT ![p] = IF SwapWins(shared_shutdown) THEN "send" ELSE "enqueue"]
    /\ UNCHANGED <<kind, target_transactions, shared_counter, shutdown_rx,
                   comparator, signature_tx, stream, message, accumulator, result,
                   now, frames, script, external, reported, sends, counted,
                   transaction_count, pushes, passed, sent_at>>

\* `let _ = shutdown_tx.send(());` : the receiver of every worker still in its
\* loop gets the value (a receiver is not polled again after the loop)
Send(p) ==
    /\ ~ProcessFailed
    /\ pc[p] = "send"
    /\ shutdown_rx' = [q \in Producers |-> InLoop(q)]
    /\ sends' = [sends EXCEPT ![p] = @ + 1]
    /\ sent_at' = shared_counter
    /\ pc' = [pc EXCEPT ![p] = "enqueue"]
    /\ UNCHANGED <<kind, target_transactions, shared_counter, shared_shutdown,
                   comparator, signature_tx, stream, message, accumulator, result,
                   now, frames, script, external, reported, swapped_false, counted,
                   transaction_count, pushes, passed>>

\* hand the envelope to the sink, then back to the top of the loop
Enqueue(p) ==
    /\ ~ProcessFailed
    /\ pc[p] = "enqueue"
    /\ IF EnqueueBlocks(kind[p])
       THEN /\ Len(signature_tx) < QueueCap
            /\ signature_tx' = Append(signature_tx, Envelope(p))
       ELSE signature_tx' = Push(signature_tx, Envelope(p))
    /\ pushes' = Pushed(pushes, <<p, message[p].signature>>)
    /\ message' = [message EXCEPT ![p] = Idle]
    /\ pc' = [pc EXCEPT ![p] = "select"]
    /\ UNCHANGED <<kind, target_transactions, shared_counter, shared_shutdown,
                   shutdown_rx, comparator, stream, accumulator, result, now, frames,
                   script, external, reported, sends, swapped_false, counted,
                   transaction_count, passed, sent_at>>

\* after the loop: `comparator.add_batch(&endpoint_name, collected); Ok(())`
Flush(p) ==
    /\ ~ProcessFailed
    /\ pc[p] = "flush"
    /\ comparator' = AddBatch(comparator, p, accumulator[p])
    /\ pc' = [pc EXCEPT ![p] = "done"]
    /\ result' = [result EXCEPT ![p] = "Ok"]
    /\ passed' = PassBatch(passed, p, accumulator[p], DOMAIN accumulator[p])
    /\ UNCHANGED <<kind, target_transactions, shared_counter, shared_shutdown,
                   shutdown_rx, signature_tx, stream, message, accumulator, now,
                   frames, script, external, reported, sends, swapped_false, counted,
                   transaction_count, pushes, sent_at>>

\* ------------------------------------------------------------ environment
\* the external sink takes an envelope off the queue
Drain ==
    /\ ~ProcessFailed
    /\ signature_tx # <<>>
    /\ signature_tx' = Tail(signature_tx)
    /\ UNCHANGED <<kind, target_transactions, shared_counter, shared_shutdown,
                   shutdown_rx, comparator, pc, stream, message, accumulator, result,
                   now, frames, script, external, reported, sends, swapped_false,
                   counted,
                   transaction_count, pushes, passed, sent_at>>

Tick ==
    /\ ~ProcessFailed
    /\ now < MaxTime
    /\ now' = now + 1
    /\ UNCHANGED <<kind, target_transactions, shared_counter, shared_shutdown,
                   shutdown_rx, comparator, signature_tx, pc, stream, message,
                   accumulator, result, frames, script, external, reported, sends,
                   swapped_false, counted,
                   transaction_count, pushes, passed, sent_at>>

AllDone == \A p \in Producers : pc[p] = "done"

\* SIGINT: the supervisor broadcasts shutdown itself
ExternalShutdown ==
    /\ ~external
    /\ ~AllDone
    /\ ~ProcessFailed
    /\ external' = TRUE
    /\ shutdown_rx' = [q \in Producers |-> InLoop(q)]
    /\ UNCHANGED <<kind, target_transactions, shared_counter, shared_shutdown,
                   comparator, signature_tx, pc, stream, message, accumulator, result,
                   now, frames, script, reported, sends, swapped_false, counted,
                   transaction_count, pushes, passed, sent_at>>

\* the supervisor has joined every worker and emits Comparator.report()
Report ==
    /\ AllDone
    /\ ~reported
    /\ reported' = TRUE
    /\ UNCHANGED <<kind, target_transactions, shared_counter, shared_shutdown,
                   shutdown_rx, comparator, signature_tx, pc, stream, message,
                   accumulator, result, now, frames, script, external, sends,
                   swapped_false, counted,
                   transaction_count, pushes, passed, sent_at>>

ProducerStep(p) ==
    \/ SelectShutdown(p)
    \/ Match(p)
    \/ FetchAdd(p)
    \/ Swap(p)
    \/ Send(p)
    \/ Enqueue(p)
    \/ Flush(p)

Next ==
    \/ \E p \in Producers : ConnectOk(p)
    \/ \E p \in Producers : ConnectFail(p)
    \/ \E p \in Producers : ProducerStep(p)
    \/ \E p \in Producers : LogWriteFails(p)
    \/ \E p \in Producers : PingReplyFails(p)
    \/ \E p \in Producers : StreamNext(p)
    \/ Drain
    \/ Tick
    \/ ExternalShutdown
    \/ Report

Spec == Init /\ [][Next]_vars

\* a worker that can take a step eventually takes it, and its connection
\* attempt eventually succeeds or fails; streams, the sink, the clock and
\* SIGINT are under no obligation
WorkerStep(p) == ConnectOk(p) \/ ConnectFail(p) \/ ProducerStep(p)

FairSpec == Spec /\ \A p \in Producers : WF_vars(WorkerStep(p))

\* ------------------------------------------------- scenario S2 (spec 8)
\* Two sources, interleaved, quota 3.  One unit of `now` is 5 ms:
\* A (producer 1) reads s1 at 10 ms and s2 at 30 ms; B (producer 2) reads s1
\* at 15 ms, s2 at 20 ms and s3 at 25 ms.
ScriptS2 ==
    [p \in Producers |->
        IF p = 1 THEN <<[signature |-> 1, at |-> 2], [signature |-> 2, at |-> 6]>>
        ELSE IF p = 2 THEN <<[signature |-> 1, at |-> 3], [signature |-> 2, at |-> 4],
                             [signature |-> 3, at |-> 5]>>
        ELSE <<>>]

InitS2 ==
    /\ InitCommon
    /\ target_transactions = TargetOf(3)
    /\ script = ScriptS2

\* the scripted stream yields its next frame at the frame's time
StreamNextS2(p) ==
    /\ ~ProcessFailed
    /\ pc[p] = "select"
    /\ StreamBranchPolled(shutdown_rx[p])
    /\ script[p] # <<>>
    /\ Head(script[p]).at = now
    /\ message' = [message EXCEPT ![p] =
           [type |-> "Tx", signature |-> Head(script[p]).signature, elapsed |-> now,
            has_account |-> TRUE]]
    /\ script' = [script EXCEPT ![p] = Tail(@)]
    /\ pc' = [pc EXCEPT ![p] = "match"]
    /\ UNCHANGED <<kind, target_transactions, shared_counter, shared_shutdown,
                   shutdown_rx, comparator, signature_tx, stream, accumulator, result,
                   now, frames, external, reported, sends, swapped_false, counted,
                   transaction_count, pushes, passed, sent_at>>

\* time passes while frames are still to come; a frame due now is read now,
\* unless its worker has a shutdown value pending and will never read it
TickS2 ==
    /\ ~ProcessFailed
    /\ \E p \in Producers : \E i \in 1..Len(script[p]) : script[p][i].at > now
    /\ \A p \in Producers :
          (InLoop(p) /\ script[p] # <<>> /\ Head(script[p]).at = now) => shutdown_rx[p]
    /\ now' = now + 1
    /\ UNCHANGED <<kind, target_transactions, shared_counter, shared_shutdown,
                   shutdown_rx, comparator, signature_tx, pc, stream, message,
                   accumulator, result, frames, script, external, reported, sends,
                   swapped_false, counted,
                   transaction_count, pushes, passed, sent_at>>

NextS2 ==
    \/ \E p \in Producers : ConnectOk(p)
    \/ \E p \in Producers : ProducerStep(p)
    \/ \E p \in Producers : StreamNextS2(p)
    \/ TickS2
    \/ Drain
    \/ Report

SpecS2 == InitS2 /\ [][NextS2]_vars

\* ------------------------------------------------------------ properties
RECURSIVE SumSends(_)
SumSends(ps) ==
    IF ps = {} THEN 0
    ELSE LET p == CHOOSE x \in ps : TRUE IN sends[p] + SumSends(ps \ {p})

\* number of shutdown_tx.send(()) calls made by producers so far
TotalSends == SumSends(Producers)

Novelties == DOMAIN comparator.by_signature

\* C1: with a quota, the shutdown broadcast is sent at most once, only by the
\* producer whose swap of shared_shutdown returned false, and exactly once
\* as soon as the counter has reached the target and no producer is still
\* between its fetch_add and its send.
C1_SingleBroadcast ==
    /\ TotalSends <= 1
    /\ Cardinality(swapped_false) <= 1
    /\ \A p \in Producers : (sends[p] > 0 \/ pc[p] = "send") => p \in swapped_false
    /\ (/\ target_transactions.some
        /\ shared_counter >= target_transactions.val
        /\ \A p \in Producers : pc[p] \notin {"swap", "send"}) => TotalSends = 1

\* two producers both passed the target; one swap returned true and one
\* broadcast was sent
C1_Witness ==
    /\ target_transactions.some
    /\ shared_counter > target_transactions.val
    /\ TotalSends = 1
    /\ \A p \in Producers : pc[p] \notin {"fetch_add", "swap", "send"}

\* C2: whenever a producer is performing, or has performed, the shutdown
\* broadcast, shared_counter >= target_transactions.
C2_BroadcastAtTarget ==
    \A p \in Producers :
        (pc[p] = "send" \/ sends[p] > 0) =>
            /\ target_transactions.some
            /\ shared_counter >= target_transactions.val

C2_Witness ==
    \E p \in Producers : sends[p] = 1 /\ pc[p] = "enqueue"

\* C3: once the shutdown has been broadcast, every producer eventually
\* returns (so the supervisor's join completes), whatever its stream does
\* and also when it is handing an envelope to the sink, unless a connect
\* failure has ended the process before.
C3_ShutdownEndsEveryWorker == (TotalSends > 0) ~> (AllDone \/ ProcessFailed)

\* C4: a producer whose stream.next() yielded None, with no shutdown
\* broadcast and the quota not reached, leaves its loop for the final flush.
C4_StreamEndLeavesLoop ==
    [][\A p \in Producers :
          (/\ pc[p] = "match"
           /\ message[p].type = "None"
           /\ ~shared_shutdown /\ ~external
           /\ pc'[p] # "match") => pc'[p] = "flush"]_vars

\* C5: a producer whose stream yielded a receive error handles no further
\* message and leaves its loop for the final flush.
C5_StreamErrorLeavesLoop ==
    [][\A p \in Producers :
          (/\ pc[p] = "match"
           /\ message[p].type = "Err"
           /\ pc'[p] # "match") => pc'[p] = "flush"]_vars

\* C6 (as claimed): with a quota, when no producer is between a registration
\* and its increment, shared_counter is the number of distinct signatures
\* observed, a signature seen by two producers being counted once.
C6_CountsDistinctSignatures ==
    (/\ target_transactions.some
     /\ \A p \in Producers : pc[p] # "fetch_add")
    => shared_counter = Cardinality(SigsOf(comparator))

\* C6 (amended): with a quota, shared_counter plus the producers that have
\* registered a novelty and not yet incremented is the number of (signature,
\* source) pairs in the Comparator (a signature seen by two producers counts
\* twice), and once the counter has reached the target and no producer is
\* between fetch_add and send, shared_shutdown is set.
C6_CountsNovelties ==
    target_transactions.some =>
        /\ shared_counter + Cardinality({p \in Producers : pc[p] = "fetch_add"})
              = Cardinality(Novelties)
        /\ (/\ shared_counter >= target_transactions.val
            /\ \A p \in Producers : pc[p] \notin {"swap", "send"}) => shared_shutdown

\* one signature, seen by two producers, counted twice
C6_Witness ==
    /\ target_transactions.some
    /\ shared_counter = 2
    /\ Cardinality(SigsOf(comparator)) = 1

\* C7 (as claimed): scenario S2 always ends with a report holding s1, s2 and
\* s3, one win for A, two for B, A's gap on s2 10 ms (2 units) and B's gap
\* on s1 5 ms (1 unit).
C7_ScenarioS2Report ==
    reported =>
        /\ SigsOf(comparator) = {1, 2, 3}
        /\ Wins(comparator, 1) = 1
        /\ Wins(comparator, 2) = 2
        /\ 1 \in Observers(comparator, 2)
        /\ Gap(comparator, 2, 1) = 2
        /\ Gap(comparator, 1, 2) = 1

\* C7 (amended): scenario S2 always ends with a report holding s1 and s2; A
\* wins s1 and B's gap on s1 is 5 ms; B wins s2, and A's gap on s2 is 10 ms
\* if A recorded s2 at all; A has 1 win and B has 1 win, or 2 if s3 was
\* recorded.  The quota counts (source, signature) novelties, so it is
\* reached by A:s1, B:s1, B:s2 and may stop the run before s3 and A's s2.
C7_ScenarioS2Amended ==
    reported =>
        /\ {1, 2} \subseteq SigsOf(comparator)
        /\ Observers(comparator, 1) = {1, 2}
        /\ Winners(comparator, 1) = {1}
        /\ Gap(comparator, 1, 2) = 1
        /\ Winners(comparator, 2) = {2}
        /\ (1 \in Observers(comparator, 2) => Gap(comparator, 2, 1) = 2)
        /\ Wins(comparator, 1) = 1
        /\ Wins(comparator, 2) = (IF 3 \in SigsOf(comparator) THEN 2 ELSE 1)
        /\ shared_counter >= 3

\* the run of S2 in which the quota stopped both producers before s3 and
\* before A's s2
C7_Witness ==
    /\ reported
    /\ script[1] # <<>> /\ script[2] # <<>>
    /\ SigsOf(comparator) = {1, 2}
    /\ shared_counter = 3

\* C8 (as claimed): with target_transactions = 1, a run in which a novelty
\* was counted ends with a report of exactly one signature.
C8_TargetOneSingleSignature ==
    (target_transactions = TargetOf(1) /\ reported /\ shared_counter >= 1)
    => Cardinality(SigsOf(comparator)) = 1

\* C8 (amended): with target_transactions = 1, the first counted novelty
\* triggers the shutdown (shared_shutdown is set and exactly one broadcast
\* is sent once no producer is between fetch_add and send), the producer
\* that broadcasts has recorded exactly one signature, and the final report
\* holds at least one signature; other producers may add more before they
\* observe the broadcast.
C8_TargetOneAmended ==
    target_transactions = TargetOf(1) =>
        /\ (/\ shared_counter >= 1
            /\ \A p \in Producers : pc[p] \notin {"swap", "send"})
           => (shared_shutdown /\ TotalSends = 1)
        /\ \A p \in Producers :
              sends[p] > 0 => Cardinality(DOMAIN accumulator[p]) = 1
        /\ (reported /\ shared_counter >= 1) => Cardinality(SigsOf(comparator)) >= 1

\* quota 1, and the final report holds two signatures
C8_Witness ==
    /\ target_transactions = TargetOf(1)
    /\ reported
    /\ TotalSends = 1
    /\ Cardinality(SigsOf(comparator)) = 2

C10_CountedIsReported ==
    \A c \in counted : Observers(comparator, c[2]) # {}

\* a finished run in which two novelties were counted
C10_Witness ==
    /\ reported
    /\ Cardinality(counted) >= 2

\* ---------------------------------------------------------- message filters
\* C11: whatever the provider kind, a transaction that a worker records in
\* its accumulator referenced at least one of the configured accounts.
C11_AccountFilterEveryKind ==
    [][\A p \in Producers :
          (/\ pc[p] = "match"
           /\ message[p].type = "Tx"
           /\ accumulator'[p] # accumulator[p]) => message[p].has_account]_vars

\* C12: no worker of any kind records, registers or counts the signature of
\* a message that carries none (the empty string).
C12_NoEmptySignature ==
    /\ \A p \in Producers : EmptySig \notin DOMAIN accumulator[p]
    /\ \A key \in Novelties : key[1] # EmptySig
    /\ \A pair \in counted : pair[2] # EmptySig
    /\ \A pair \in DOMAIN pushes : pair[2] # EmptySig

\* ---------------------------------------------------------- deduplication
\* C13: when a worker handles a transaction that got past its filters, a
\* signature new to its accumulator is added with the elapsed time of this
\* message and the worker goes on to the hot path (record returned true); a
\* signature already there leaves the accumulator as it is and the worker
\* goes back to the select (record returned false). No step of anybody
\* removes or changes a stored entry. (A worker whose trace-log write fails
\* returns before it calls record.)
C13_RecordOncePerSignature ==
    [][\A p \in Producers :
          /\ \A s \in DOMAIN accumulator[p] :
                s \in DOMAIN accumulator'[p] /\ accumulator'[p][s] = accumulator[p][s]
          /\ (/\ pc[p] = "match"
              /\ pc'[p] \notin {"match", "done"}
              /\ message[p].type = "Tx"
              /\ Accepts(kind[p], message[p]))
             => LET s == message[p].signature
                IN IF s \in DOMAIN accumulator[p]
                   THEN /\ accumulator'[p] = accumulator[p]
                        /\ pc'[p] = "select"
                        /\ comparator' = comparator
                   ELSE /\ DOMAIN accumulator'[p] = DOMAIN accumulator[p] \cup {s}
                        /\ accumulator'[p][s] = message[p].elapsed
                        /\ pc'[p] \in {"fetch_add", "enqueue"}]_vars

\* a worker has handled two transactions with the same signature, the second
\* one later than the first, and holds the first one's time
C13_Witness ==
    \E p \in Producers :
        /\ transaction_count[p] = 2
        /\ DOMAIN accumulator[p] = {1}
        /\ accumulator[p][1] = 0
        /\ now = 1
        /\ pc[p] = "select"

\* C14: for every (source, signature) pair the hot path is entered at most
\* once in a run: the step that registers the pair in the Comparator or
\* enters the hot path is a step on a signature new to the worker's
\* accumulator and new to the Comparator for this source, the counter is
\* incremented for a pair not counted before, a pair is pushed to the queue
\* at most once, and a message whose record call returned false changes
\* neither the Comparator, nor the counter, nor the queue.
C14_OncePerSourceAndSignature ==
    /\ [](\A pair \in DOMAIN pushes : pushes[pair] = 1)
    /\ [](\A p \in Producers :
             pc[p] \in {"fetch_add", "swap", "send", "enqueue"}
             => <<p, message[p].signature>> \notin DOMAIN pushes)
    /\ [][\A p \in Producers :
             /\ (/\ pc[p] = "match"
                 /\ pc'[p] \notin {"match", "done"}
                 /\ message[p].type = "Tx")
                => LET s == message[p].signature
                   IN /\ (comparator' # comparator \/ pc'[p] # "select")
                         => (s \notin DOMAIN accumulator[p] /\ <<s, p>> \notin Novelties)
                      /\ s \in DOMAIN accumulator[p]
                         => /\ pc'[p] = "select"
                            /\ comparator' = comparator
                            /\ shared_counter' = shared_counter
                            /\ signature_tx' = signature_tx
             /\ (pc[p] = "fetch_add" /\ pc'[p] # "fetch_add")
                => <<p, message[p].signature>> \notin counted]_vars

\* a worker has pushed the envelope of a signature once and has since handled
\* a second message with that signature
C14_Witness ==
    \E p \in Producers :
        /\ transaction_count[p] = 2
        /\ DOMAIN accumulator[p] = {1}
        /\ DOMAIN pushes = {<<p, 1>>}
        /\ pushes[<<p, 1>>] = 1
        /\ <<p, 1>> \in counted
        /\ shared_counter = 1
        /\ pc[p] = "select"

\* ------------------------------------------------------------------ queue
\* C15: a push onto the envelope queue never blocks: while the process runs,
\* a worker that is about to hand over its envelope can do so at once,
\* whatever the queue holds (the envelope is dropped when the queue is full).
C15_PushNeverBlocks ==
    \A p \in Producers :
        (~ProcessFailed /\ pc[p] = "enqueue") => ENABLED Enqueue(p)

\* ------------------------------------------- the Comparator on its own
\* Any sequence of note_first_seen and add_batch calls, by any source, for
\* any signature, with any elapsed time and any batch.
Batches == UNION {[D -> 0..MaxTime] : D \in SUBSET Sigs}

InitCmp ==
    /\ InitCommon
    /\ target_transactions = None
    /\ script = [p \in Producers |-> <<>>]

CallNoteFirstSeen ==
    /\ \E source \in Producers, signature \in Sigs, tx_data \in 0..MaxTime :
          /\ comparator' = NoteFirstSeen(comparator, source, signature, tx_data)
          /\ passed' = Pass(passed, source, signature, tx_data)
    /\ UNCHANGED <<kind, target_transactions, shared_counter, shared_shutdown,
                   shutdown_rx, signature_tx, pc, stream, message, accumulator,
                   result, now, frames, script, external, reported, sends,
                   swapped_false, counted, transaction_count, pushes, sent_at>>

CallAddBatch ==
    /\ \E source \in Producers, batch \in Batches :
          /\ comparator' = AddBatch(comparator, source, batch)
          /\ passed' = PassBatch(passed, source, batch, DOMAIN batch)
    /\ UNCHANGED <<kind, target_transactions, shared_counter, shared_shutdown,
                   shutdown_rx, signature_tx, pc, stream, message, accumulator,
                   result, now, frames, script, external, reported, sends,
                   swapped_false, counted, transaction_count, pushes, sent_at>>

NextCmp == CallNoteFirstSeen \/ CallAddBatch

SpecCmp == InitCmp /\ [][NextCmp]_vars

\* C16: after any sequence of note_first_seen and add_batch calls, the
\* Comparator holds an entry for exactly the (signature, source) pairs that
\* were ever passed, and the elapsed time stored for a pair is the smallest
\* of the values passed for it (one entry per source and signature).
C16_StoredIsMinimum ==
    /\ DOMAIN comparator.by_signature = DOMAIN passed
    /\ \A key \in DOMAIN passed :
          /\ comparator.by_signature[key] \in passed[key]
          /\ \A tx_data \in passed[key] : comparator.by_signature[key] <= tx_data

\* a pair was passed two different values and the smaller one is stored
C16_Witness ==
    \E key \in DOMAIN passed :
        /\ passed[key] = {0, 1}
        /\ comparator.by_signature[key] = 0

\* C17: in every Comparator state, for every source and every batch,
\* add_batch applied twice gives the state that add_batch applied once gives.
C17_AddBatchIdempotent ==
    \A source \in Producers, batch \in Batches :
        AddBatch(AddBatch(comparator, source, batch), source, batch)
            = AddBatch(comparator, source, batch)

\* add_batch has lowered a stored value: the Comparator is what add_batch of
\* a batch leaves, the batch holds a value smaller than one passed before
C17_Witness ==
    \E source \in Producers, batch \in Batches :
        /\ batch # EmptyMap
        /\ comparator = AddBatch(comparator, source, batch)
        /\ \E s \in DOMAIN batch :
              /\ batch[s] = 0
              /\ passed[<<s, source>>] = {0, 1}

\* C20: in the report of every signature of the Comparator, the winner is an
\* observer whose stored elapsed time is the smallest among the observers,
\* every other observer, and nobody else, has a gap, which is not negative,
\* and the sources seen that did not observe the signature are the missing
\* ones, none of which has a gap.
C20_ReportWinnerGapsMissing ==
    \A s \in SigsOf(comparator) :
        LET winner == ReportWinner(comparator, s)
            gaps == ReportGaps(comparator, s)
            missing == ReportMissing(comparator, s)
        IN /\ winner \in Observers(comparator, s)
           /\ \A o \in Observers(comparator, s) :
                 Elapsed(comparator, s, winner) <= Elapsed(comparator, s, o)
           /\ winner \in Winners(comparator, s)
           /\ DOMAIN gaps = Observers(comparator, s) \ {winner}
           /\ \A o \in DOMAIN gaps : gaps[o] >= 0
           /\ missing \cap (DOMAIN gaps \cup {winner}) = {}
           /\ missing \cup Observers(comparator, s) = comparator.sources_seen

\* one signature whose second observer was sooner than its first and has won,
\* the first having a positive gap, and another signature that a source seen
\* did not observe
C20_Witness ==
    /\ \E s \in SigsOf(comparator) :
          /\ Observers(comparator, s) = {1, 2}
          /\ ReportWinner(comparator, s) = 2
          /\ ReportGaps(comparator, s)[1] = 1
    /\ \E s \in SigsOf(comparator) : ReportMissing(comparator, s) # {}

\* ------------------------------------------------- scenario S1 (spec 8)
\* One source with a duplicate, quota 3: A (producer 1) reads s1, s2, s1, s3,
\* s4, one frame per unit of `now`; the streams of the other workers are
\* silent.
ScriptS1 ==
    [p \in Producers |->
        IF p = 1 THEN <<[signature |-> 1, at |-> 1], [signature |-> 2, at |-> 2],
                        [signature |-> 1, at |-> 3], [signature |-> 3, at |-> 4],
                        [signature |-> 4, at |-> 5]>>
        ELSE <<>>]

InitS1 ==
    /\ InitCommon
    /\ target_transactions = TargetOf(3)
    /\ script = ScriptS1

SpecS1 == InitS1 /\ [][NextS2]_vars

ObservationsS1 == {s \in SigsOf(comparator) : 1 \in Observers(comparator, s)}

\* C18: in scenario S1 the counter is the number of distinct signatures A
\* has counted (the second s1 is not counted) and never exceeds 3; it is 3
\* exactly when s3 has been counted; a broadcast is sent only then, by A, and
\* exactly one once A is past its send; once A has left its loop it pushes
\* no envelope and s4 is never pushed; the report shows 3 or 4 observations
\* for A and as many wins.
C18_ScenarioS1 ==
    /\ [](/\ shared_counter = Cardinality(counted)
          /\ counted \subseteq {<<1, 1>>, <<1, 2>>, <<1, 3>>}
          /\ (shared_counter = 3) = (<<1, 3>> \in counted)
          /\ TotalSends > 0 => (shared_counter = 3 /\ 3 \in DOMAIN accumulator[1])
          /\ (shared_counter = 3 /\ pc[1] \notin {"swap", "send"})
                => (sends[1] = 1 /\ TotalSends = 1)
          /\ <<1, 4>> \notin DOMAIN pushes
          /\ reported => (/\ Cardinality(ObservationsS1) \in {3, 4}
                          /\ Wins(comparator, 1) = Cardinality(ObservationsS1)))
    /\ [][pc[1] \in {"flush", "done"} => pushes' = pushes]_vars

\* the report of S1: A has handled four messages, the duplicate among them,
\* has three observations and never read s4
C18_Witness ==
    /\ reported
    /\ transaction_count[1] = 4
    /\ ObservationsS1 = {1, 2, 3}
    /\ Wins(comparator, 1) = 3
    /\ Len(script[1]) = 1
    /\ shared_counter = 3

\* ------------------------------------------------------- connect failure
\* C19: once the initial connection of a worker has failed, the process has
\* ended with a failure, whatever the other workers have connected to or
\* recorded: no report has been produced, and nothing happens any more (no
\* worker steps, no report).
C19_ConnectFailureIsFatal ==
    /\ []((\E p \in Producers : result[p] = "connect_failed")
            => (ProcessFailed /\ ~reported))
    /\ [][~ProcessFailed]_vars

\* the connection of one worker has failed after another one had recorded
\* and counted a novelty
C19_Witness ==
    \E p, q \in Producers :
        /\ result[p] = "connect_failed"
        /\ pc[p] = "killed"
        /\ pc[q] = "select"
        /\ DOMAIN accumulator[q] # {}
        /\ shared_counter = 1

\* ------------------------------------------------------------- loop exit
\* C21: a worker returns only through the add_batch of its accumulator: the
\* step by which it reaches its return is the step that applies
\* add_batch(source, accumulator) to the Comparator, on every path out of the
\* loop, a failed trace-log write and a failed ping reply included.
C21_AddBatchOnEveryExit ==
    [][\A p \in Producers :
          (pc[p] # "done" /\ pc'[p] = "done")
          => (/\ pc[p] = "flush"
              /\ comparator' = AddBatch(comparator, p, accumulator[p]))]_vars

\* --------------------------------------------------------------- shutdown
\* C22: a worker that is at its select with a shutdown value delivered to
\* its receiver leaves the select only by the shutdown branch: it reads no
\* further stream message, whatever its stream has pending, so the message
\* it was handling when the broadcast was sent is the last one it handles.
C22_ShutdownHasPriority ==
    [][\A p \in Producers :
          (pc[p] = "select" /\ shutdown_rx[p] /\ pc'[p] # "select")
          => (/\ pc'[p] = "flush"
              /\ message'[p] = message[p]
              /\ transaction_count'[p] = transaction_count[p]
              /\ frames' = frames)]_vars

\* a worker other than the broadcaster has taken the shutdown branch while
\* its stream was open and could deliver more
C22_Witness ==
    \E p, q \in Producers :
        /\ p # q
        /\ sends[q] = 1
        /\ ~external
        /\ pc[p] = "flush"
        /\ stream[p] = "open"
        /\ frames < MaxFrames

\* ------------------------------------------------------------------ quota
\* C23: with a quota, shared_counter is the number of (source, signature)
\* novelties counted so far, one for each producer that saw the signature
\* first for itself; every counted novelty is registered in the Comparator
\* (the increment comes after the registration), every registered novelty is
\* counted or its producer is about to increment, and an envelope is pushed
\* only for a counted novelty (the increment comes before the push).
C23_CounterIsNovelties ==
    target_transactions.some =>
        /\ shared_counter = Cardinality(counted)
        /\ \A pair \in counted : <<pair[2], pair[1]>> \in Novelties
        /\ \A key \in Novelties :
              \/ <<key[2], key[1]>> \in counted
              \/ pc[key[2]] = "fetch_add" /\ message[key[2]].signature = key[1]
        /\ \A pair \in DOMAIN pushes : pair \in counted
        /\ \A p \in Producers :
              pc[p] \in {"swap", "send", "enqueue"}
              => <<p, message[p].signature>> \in counted

\* one signature, first seen by each of two producers, has added two to the
\* counter, and both envelopes have been pushed
C23_Witness ==
    /\ target_transactions.some
    /\ counted = {<<1, 1>>, <<2, 1>>}
    /\ shared_counter = 2
    /\ DOMAIN pushes = counted
    /\ Novelties = {<<1, 1>>, <<1, 2>>}

\* C24 (as claimed): with a quota, shared_counter never exceeds
\* target_transactions + (N - 1).
C24_OvershootBoundedByTarget ==
    target_transactions.some =>
        shared_counter <= target_transactions.val + (NumProducers - 1)

\* C24 (amended): the overshoot is bounded from the broadcast, not from the
\* target: once the broadcast has been sent, shared_counter never exceeds
\* the value it had at the send by more than N - 1 (each other producer
\* finishes at most the one message it is handling).  Between the increment
\* that reaches the target and the send, the other producers go on counting.
C24_OvershootBoundedBySend ==
    TotalSends > 0 =>
        /\ sent_at >= target_transactions.val
        /\ shared_counter <= sent_at + (NumProducers - 1)

\* the broadcast was sent when the counter was already above the target, and
\* the counter went beyond target + (N - 1)
C24_Witness ==
    /\ TotalSends = 1
    /\ sent_at > target_transactions.val
    /\ shared_counter > target_transactions.val + (NumProducers - 1)

\* C25: a worker that has left its loop (by the shutdown branch, or by the
\* end of its stream) no longer records, counts, swaps, broadcasts or pushes;
\* its entries in the Comparator stay as they are; and its one remaining
\* step, the final add_batch, leaves the Comparator, the counter, the flag
\* and the queue unchanged, every entry of its accumulator being registered
\* already with the same elapsed time.
OwnPairs(pairs, p) == {pair \in pairs : pair[1] = p}

C25_AfterLoopOnlyAddBatch ==
    /\ [](\A p \in Producers :
             pc[p] \in {"flush", "done"}
             => \A s \in DOMAIN accumulator[p] :
                   /\ <<s, p>> \in Novelties
                   /\ comparator.by_signature[<<s, p>>] = accumulator[p][s])
    /\ [][\A p \in Producers :
             pc[p] \in {"flush", "done"}
             => /\ pc'[p] \in {"flush", "done"}
                /\ accumulator'[p] = accumulator[p]
                /\ transaction_count'[p] = transaction_count[p]
                /\ sends'[p] = sends[p]
                /\ (p \in swapped_false') = (p \in swapped_false)
                /\ OwnPairs(counted', p) = OwnPairs(counted, p)
                /\ OwnPairs(DOMAIN pushes', p) = OwnPairs(DOMAIN pushes, p)
                /\ (pc[p] = "flush" /\ pc'[p] = "done")
                   => /\ comparator' = comparator
                      /\ shared_counter' = shared_counter
                      /\ shared_shutdown' = shared_shutdown
                      /\ signature_tx' = signature_tx]_vars

\* a worker whose stream was still open has taken the shutdown branch after
\* the quota broadcast and has returned through its final add_batch, its
\* accumulator holding a signature
C25_Witness ==
    \E p \in Producers :
        /\ pc[p] = "done"
        /\ result[p] = "Ok"
        /\ stream[p] = "open"
        /\ DOMAIN accumulator[p] # {}
        /\ TotalSends = 1
        /\ ~external

====
